---- MODULE Spec2Model ----
(***************************************************************************)
(* MovieOrganizer (src/src/main.py): the per-folder pipeline               *)
(* check name -> find video -> rename -> convert -> delete excess, and the *)
(* driver that runs it on one folder or on every subdirectory of a parent. *)
(*                                                                         *)
(* File and folder names are sequences of one-character strings, so that   *)
(* the regular expressions, os.path.splitext, int() and str() are          *)
(* computed character by character.  A path os.path.join(folder, name) is  *)
(* held as its last component, the folder being the current folder_path.   *)
(* The filesystem is POSIX: os.rename replaces an existing file and raises *)
(* when the destination is a directory.                                    *)
(***************************************************************************)
EXTENDS Integers, Sequences, FiniteSets, TLC

\* ------------------------------------------------------------------ bounds
\* Most entries one folder holds when the program starts (single-folder run).
MaxEntries == 3
\* Most entries the parent folder holds in a --many run.
MaxParent == 3
\* Most entries one subfolder holds in a --many run.
MaxBatchEntries == 2

\* ------------------------------------------------------------ characters
Digits == <<"0", "1", "2", "3", "4", "5", "6", "7", "8", "9">>

IsDigit(c) == \E i \in 1..10 : Digits[i] = c

DigitValue(c) == (CHOOSE i \in 1..10 : Digits[i] = c) - 1

\* The characters of the names below, in code point order (what sorted() and
\* string comparison use).
Alphabet ==
    <<"\n", " ", "(", ")", ".", "0", "1", "2", "3", "4", "5", "6", "7", "8", "9",
      "M", "N", "T", "U", "V", "a", "b", "d", "g", "h", "i", "j", "k", "m", "p", "s",
      "v">>

Ord(c) == CHOOSE i \in 1..Len(Alphabet) : Alphabet[i] = c

\* Python's s < t on str: lexicographic by code point, a proper prefix first.
StrLess(s, t) ==
    \E k \in 0..Len(s) :
        /\ k <= Len(t)
        /\ \A i \in 1..k : s[i] = t[i]
        /\ \/ k = Len(s) /\ k < Len(t)
           \/ k < Len(s) /\ k < Len(t) /\ Ord(s[k + 1]) < Ord(t[k + 1])

\* sorted(names): the ascending list of a set of distinct strings.
RECURSIVE sorted(_)
sorted(names) ==
    IF names = {} THEN <<>>
    ELSE LET least == CHOOSE n \in names : \A o \in names \ {n} : StrLess(n, o)
         IN  <<least>> \o sorted(names \ {least})

\* sub in s, for a non-empty sub.
Contains(sub, s) ==
    \E i \in 1..(Len(s) - Len(sub) + 1) : SubSeq(s, i, i + Len(sub) - 1) = sub

\* ------------------------------------------------------- program constants
PREFERRED_VIDEO_EXTENSION == <<".", "m", "k", "v">>

VIDEO_EXTENSIONS ==
    { <<".", "a", "v", "i">>, <<".", "m", "k", "v">>, <<".", "m", "o", "v">>,
      <<".", "m", "p", "4">>, <<".", "w", "e", "b", "m">>, <<".", "w", "m", "v">> }

TRANSCODE == "TRANSCODE"
REMUX == "REMUX"

\* ---------------------------------------------------------- pure functions
\* Index of the last '.' of p, 0 when there is none.
LastDot(p) ==
    IF \E i \in 1..Len(p) : p[i] = "."
    THEN CHOOSE i \in 1..Len(p) : p[i] = "." /\ \A j \in (i + 1)..Len(p) : p[j] # "."
    ELSE 0

\* os.path.splitext on a name without separators: split at the last dot,
\* unless only dots precede it (leading dots are not an extension).
splitext(p) ==
    LET d == LastDot(p)
    IN  IF d > 0 /\ \E i \in 1..(d - 1) : p[i] # "."
        THEN <<SubSeq(p, 1, d - 1), SubSeq(p, d, Len(p))>>
        ELSE <<p, <<>>>>

\* \(\d\d\d\d\) matches s at position i.
GroupAt(s, i) ==
    /\ i >= 1
    /\ i + 5 <= Len(s)
    /\ s[i] = "("
    /\ \A k \in 1..4 : IsDigit(s[i + k])
    /\ s[i + 5] = ")"

\* ^.+ \(\d\d\d\d\)$ with the match ending at position e: '.' matches no newline.
MatchEndingAt(s, e) ==
    /\ e >= 8
    /\ e <= Len(s)
    /\ \A i \in 1..(e - 7) : s[i] # "\n"
    /\ s[e - 6] = " "
    /\ GroupAt(s, e - 5)

\* re.match(r'^.+ \(\d\d\d\d\)$', folder_name) != None; '$' matches at the end
\* of the string and before a newline that ends it.
check_proper_folder_name(folder_name) ==
    \/ MatchEndingAt(folder_name, Len(folder_name))
    \/ /\ Len(folder_name) >= 1
       /\ folder_name[Len(folder_name)] = "\n"
       /\ MatchEndingAt(folder_name, Len(folder_name) - 1)

\* re.search(r'\(\d\d\d\d\)', s): the leftmost position that matches, scanning
\* from i; 0 when none does.
RECURSIVE re_search(_, _)
re_search(s, i) ==
    IF i > Len(s) THEN 0
    ELSE IF GroupAt(s, i) THEN i
    ELSE re_search(s, i + 1)

\* int() of a string of decimal digits.
RECURSIVE int(_)
int(ds) ==
    IF Len(ds) = 0 THEN 0
    ELSE 10 * int(SubSeq(ds, 1, Len(ds) - 1)) + DigitValue(ds[Len(ds)])

\* str() of a natural number.
RECURSIVE str(_)
str(n) ==
    IF n < 10 THEN <<Digits[n + 1]>>
    ELSE str(n \div 10) \o <<Digits[(n % 10) + 1]>>

\* A mutation of extract_year: the last group of the name instead of the first.
extract_year_last(folder_name) ==
    LET i == CHOOSE k \in 1..Len(folder_name) :
                 /\ GroupAt(folder_name, k)
                 /\ \A j \in (k + 1)..Len(folder_name) : ~GroupAt(folder_name, j)
    IN  int(SubSeq(folder_name, i + 1, i + 4))

\* extract_year: year_str is the matched group, year = int(year_str[1:-1]).
extract_year(folder_name) ==
    LET i == re_search(folder_name, 1)
        year_str == SubSeq(folder_name, i, i + 5)
    IN  int(SubSeq(year_str, 2, Len(year_str) - 1))

\* ------------------------------------------------------------------- names
F_plain   == <<"T", " ", "(", "2", "0", "1", "0", ")">>
F_noyear  == <<"T">>
F_nospace == <<"T", "(", "2", "0", "1", "0", ")">>
F_dotted  == <<"M", ".", " ", "N", " ", "(", "2", "0", "0", "9", ")">>
F_two     == <<"T", " ", "(", "1", "9", "9", "9", ")", " ", "(", "2", "0", "1", "0", ")">>
F_zero    == <<"T", " ", "(", "0", "9", "9", "9", ")">>
F_hidden  == <<".", "h", " ", "(", "2", "0", "1", "0", ")">>
F_newline == <<"T", " ", "(", "2", "0", "1", "0", ")", "\n">>
F_second  == <<"U", " ", "(", "2", "0", "1", "0", ")">>
V_file    == <<"V", " ", "(", "2", "0", "1", "0", ")">>

\* The folder names a single-folder run is given.
FolderNames ==
    {F_plain, F_noyear, F_nospace, F_dotted, F_two, F_zero, F_hidden, F_newline}

\* The entries a folder may hold at the start; an entry's id is its index
\* here and stands for the file itself (it survives a rename).
Universe ==
    << [name |-> <<"a", "2", "0", "1", "0", ".", "m", "p", "4">>, kind |-> "file"],
       [name |-> <<"b", "2", "0", "1", "0", ".", "m", "k", "v">>, kind |-> "file"],
       [name |-> F_plain \o <<".", "m", "p", "4">>, kind |-> "dir"],
       [name |-> F_plain \o <<".", "m", "k", "v">>, kind |-> "dir"],
       [name |-> F_plain \o <<".", "m", "k", "v">>, kind |-> "file"],
       [name |-> <<"p", "2", "0", "1", "0", ".", "j", "p", "g">>, kind |-> "file"],
       [name |-> <<"s">>, kind |-> "dir"],
       [name |-> <<"a", "2", "0", "0", "9", ".", "a", "v", "i">>, kind |-> "file"],
       [name |-> <<"M", ".", "a", "v", "i">>, kind |-> "file"],
       [name |-> <<"a", "1", "9", "9", "9", ".", "m", "p", "4">>, kind |-> "file"],
       [name |-> <<"a", "9", "9", "9", ".", "m", "p", "4">>, kind |-> "file"] >>

\* The entries a subfolder of a --many run may hold.
BatchIds == {1, 2, 3}

\* The id of a file the external tool writes.
OutputId == 0

EntryOf(i) == [name |-> Universe[i].name, kind |-> Universe[i].kind, id |-> i]

\* The directory contents over ids, at most max entries, names distinct.
Contents(ids, max) ==
    { {EntryOf(i) : i \in I} :
        I \in { J \in SUBSET ids :
                  /\ Cardinality(J) <= max
                  /\ \A i, j \in J : i # j => Universe[i].name # Universe[j].name } }

\* The entries the parent of a --many run may hold.
TopUniverse ==
    { [name |-> F_plain, kind |-> "dir"], [name |-> F_noyear, kind |-> "dir"],
      [name |-> F_second, kind |-> "dir"], [name |-> F_hidden, kind |-> "dir"],
      [name |-> V_file, kind |-> "file"] }

Names(contents) == {e.name : e \in contents}

EntryNamed(contents, n) == CHOOSE e \in contents : e.name = n

\* os.path.isdir(os.path.join(folder, n)) for an entry n of the folder.
isdir(contents, n) == \E e \in contents : e.name = n /\ e.kind = "dir"

\* ------------------------------------------------------------------- state
VARIABLES
    should_modify,       \* arguments.whatIf: FALSE when --whatIf is given
    operation,           \* TRANSCODE or REMUX
    contains_many,       \* arguments.many
    arg_folder,          \* single-folder run: the name of the folder given
    parent,              \* --many run: the entries of the folder given
    fs,                  \* folder name -> the entries the folder holds now
    fs0,                 \* fs when the program started
    pc,                  \* where the program is
    listed_dir,          \* main: the entries of the batch loop still to visit
    folder_path,         \* process_folder: the folder being processed
    year,                \* find_proper_video: the year searched for
    video_path,          \* process_folder: the located video
    renamed_video_path,  \* process_folder: what rename_proper_video returned
    converted_path,      \* process_folder: what convert_proper_video returned
    listing,             \* delete_excess_files: os.listdir entries still to visit
    tool_result,         \* convert_proper_video: what the external tool did
    result,              \* what process_folder returned
    exc,                 \* the exception that left main, "" when none
    requires_manual_intervention,  \* main: folder -> reason
    processed,           \* the folders process_folder was called on, in order
    calls,               \* the external process calls made: <<folder, tool, input, output>>
    renames,             \* the os.rename calls made: <<folder, source, target>>
    deleted,             \* the entries removed: <<folder, name>>
    messages             \* the 'Delete ...' lines of a dry run: <<folder, name>>

config == <<should_modify, operation, contains_many, arg_folder, parent, fs0>>
locals == <<folder_path, year, video_path, renamed_video_path, converted_path,
           listing, tool_result>>
effects == <<calls, renames, deleted, messages>>
vars == <<config, fs, pc, listed_dir, locals, result, exc,
          requires_manual_intervention, processed, effects>>

None == <<>>
NoResult == [ok |-> TRUE, error |-> "unset"]

Dirs(entries) == {e.name : e \in {x \in entries : x.kind = "dir"}}

Init ==
    /\ should_modify \in BOOLEAN
    /\ operation \in {TRANSCODE, REMUX}
    /\ \/ /\ contains_many = FALSE
          /\ arg_folder \in FolderNames
          /\ parent = {}
          /\ \E c \in Contents(1..Len(Universe), MaxEntries) : fs = (arg_folder :> c)
       \/ /\ contains_many = TRUE
          /\ arg_folder = None
          /\ parent \in {P \in SUBSET TopUniverse : Cardinality(P) <= MaxParent}
          /\ fs \in [Dirs(parent) -> Contents(BatchIds, MaxBatchEntries)]
    /\ fs0 = fs
    /\ pc = "main"
    /\ listed_dir = <<>>
    /\ folder_path = None /\ year = 0 /\ video_path = None
    /\ renamed_video_path = None /\ converted_path = None /\ listing = {}
    /\ tool_result = None
    /\ result = NoResult
    /\ exc = ""
    /\ requires_manual_intervention = <<>>
    /\ processed = <<>>
    /\ calls = {} /\ renames = {} /\ deleted = {} /\ messages = {}

\* ------------------------------------------------------------------ driver
\* main, lines 37-41 and 53-55: list the parent (hidden entries dropped, sorted)
\* or call process_folder on the folder given.
main_start ==
    /\ pc = "main"
    /\ IF contains_many
       THEN /\ listed_dir' = sorted({e.name : e \in {x \in parent : x.name[1] # "."}})
            /\ pc' = "loop"
            /\ UNCHANGED <<folder_path, processed>>
       ELSE /\ folder_path' = arg_folder
            /\ processed' = Append(processed, arg_folder)
            /\ pc' = "check"
            /\ UNCHANGED listed_dir
    /\ UNCHANGED <<config, fs, year, video_path, renamed_video_path, converted_path,
                   listing, tool_result, result, exc,
                   requires_manual_intervention, effects>>

\* main, lines 42-47: the next entry is a directory: process it.
loop_enter ==
    /\ pc = "loop"
    /\ listed_dir # <<>>
    /\ isdir(parent, Head(listed_dir))
    /\ folder_path' = Head(listed_dir)
    /\ processed' = Append(processed, Head(listed_dir))
    /\ listed_dir' = Tail(listed_dir)
    /\ pc' = "check"
    /\ UNCHANGED <<config, fs, year, video_path, renamed_video_path, converted_path,
                   listing, tool_result, result, exc,
                   requires_manual_intervention, effects>>

\* main, lines 42-44: the next entry is not a directory: skip it.
loop_skip ==
    /\ pc = "loop"
    /\ listed_dir # <<>>
    /\ ~isdir(parent, Head(listed_dir))
    /\ listed_dir' = Tail(listed_dir)
    /\ UNCHANGED <<config, fs, pc, locals, result, exc,
                   requires_manual_intervention, processed, effects>>

\* main, line 42: the loop is over.
loop_exit ==
    /\ pc = "loop"
    /\ listed_dir = <<>>
    /\ pc' = "report"
    /\ UNCHANGED <<config, fs, listed_dir, locals, result, exc,
                   requires_manual_intervention, processed, effects>>

\* main, lines 47-51 and 55-59: process_folder returned; a failure is recorded
\* against the folder's path.
main_record ==
    /\ pc = "return"
    /\ requires_manual_intervention' =
           IF result.ok THEN requires_manual_intervention
           ELSE [p \in DOMAIN requires_manual_intervention \cup {folder_path} |->
                    IF p = folder_path THEN result.error
                    ELSE requires_manual_intervention[p]]
    /\ pc' = IF contains_many THEN "loop" ELSE "report"
    /\ folder_path' = None /\ year' = 0 /\ video_path' = None
    /\ renamed_video_path' = None /\ converted_path' = None /\ listing' = {}
    /\ tool_result' = None
    /\ result' = NoResult
    /\ UNCHANGED <<config, fs, listed_dir, exc, processed, effects>>

\* main, lines 61-68: the summary is printed.
main_report ==
    /\ pc = "report"
    /\ pc' = "done"
    /\ UNCHANGED <<config, fs, listed_dir, locals, result, exc,
                   requires_manual_intervention, processed, effects>>

\* ---------------------------------------------------------- process_folder
\* A mutation of process_folder_catches: every exception is caught.
process_folder_catches_all(e) == TRUE

\* process_folder, line 92: except AssertionError.
process_folder_catches(e) == e = "AssertionError"

\* An exception e with message msg is raised inside process_folder's try block:
\* caught, it becomes the result (False, str(ae)); otherwise it leaves
\* process_folder and main (no caller catches it).
Raise(e, msg) ==
    IF process_folder_catches(e)
    THEN /\ result' = [ok |-> FALSE, error |-> msg]
         /\ pc' = "return"
         /\ exc' = exc
    ELSE /\ exc' = e
         /\ pc' = "crashed"
         /\ result' = result

\* process_folder, line 72.
check_name ==
    /\ pc = "check"
    /\ IF check_proper_folder_name(folder_path)
       THEN pc' = "find" /\ UNCHANGED <<result, exc>>
       ELSE Raise("AssertionError", "Improper folder name")
    /\ UNCHANGED <<config, fs, listed_dir, locals,
                   requires_manual_intervention, processed, effects>>

\* find_proper_video, lines 111-117: the entries that are no directory, have
\* a video extension and hold str(year) in the name before the extension.
video_file_matches(contents, y) ==
    { n \in Names(contents) :
        /\ ~isdir(contents, n)
        /\ splitext(n)[2] \in VIDEO_EXTENSIONS
        /\ Contains(str(y), splitext(n)[1]) }

\* A mutation of isolated: several matches are accepted.
isolated_some(matches) == Cardinality(matches) >= 1

\* process_folder, line 76: len(possible_video_matches) == 1.
isolated(matches) == Cardinality(matches) = 1

\* process_folder, lines 74-77: find_proper_video, then the assertion.
find_video ==
    /\ pc = "find"
    /\ year' = extract_year(folder_path)
    /\ LET matches == video_file_matches(fs[folder_path], year')
       IN  IF isolated(matches)
           THEN /\ video_path' = CHOOSE n \in matches : TRUE
                /\ pc' = "rename"
                /\ UNCHANGED <<result, exc>>
           ELSE /\ Raise("AssertionError", "Could not automatically isolate correct video")
                /\ UNCHANGED video_path
    /\ UNCHANGED <<config, fs, listed_dir, folder_path, renamed_video_path,
                   converted_path, listing, tool_result,
                   requires_manual_intervention, processed, effects>>

\* rename_proper_video, lines 122-124: new_name is splitext of the folder's
\* base name, current_extension is the video's.
new_video_name(folder_name, video_name) ==
    splitext(folder_name)[1] \o splitext(video_name)[2]

\* os.rename(src, dst) raises when dst is an existing directory and src a file.
rename_raises(contents, src, dst) == src # dst /\ isdir(contents, dst)

\* os.rename(src, dst): the file src gets the name dst, replacing a file there.
os_rename(contents, src, dst) ==
    IF src = dst THEN contents
    ELSE {e \in contents : e.name # src /\ e.name # dst}
             \cup {[EntryNamed(contents, src) EXCEPT !.name = dst]}

\* A mutation of rename_applies: the rename is done in a dry run too.
rename_applies_always(modify) == TRUE

\* rename_proper_video, line 126: if modify.
rename_applies(modify) == modify

\* process_folder, lines 79-80: rename_proper_video.
rename_video ==
    /\ pc = "rename"
    /\ LET target == new_video_name(folder_path, video_path)
       IN  IF rename_applies(should_modify)
           THEN /\ renames' = renames \cup {<<folder_path, video_path, target>>}
                /\ IF rename_raises(fs[folder_path], video_path, target)
                   THEN /\ Raise("IsADirectoryError", "")
                        /\ UNCHANGED <<fs, renamed_video_path>>
                   ELSE /\ fs' = [fs EXCEPT ![folder_path] =
                                     os_rename(@, video_path, target)]
                        /\ renamed_video_path' = target
                        /\ pc' = "convert"
                        /\ UNCHANGED <<result, exc>>
           ELSE /\ renamed_video_path' = target
                /\ pc' = "convert"
                /\ UNCHANGED <<fs, renames, result, exc>>
    /\ UNCHANGED <<config, listed_dir, folder_path, year, video_path, converted_path,
                   listing, tool_result, requires_manual_intervention, processed,
                   calls, deleted, messages>>

\* convert_proper_video, lines 133 and 136: the name with the preferred extension.
converted_name(video_name) == splitext(video_name)[1] \o PREFERRED_VIDEO_EXTENSION

\* A mutation of already_encoded: the extension is compared without its dot.
already_encoded_no_dot(video_name) ==
    splitext(video_name)[2] = Tail(PREFERRED_VIDEO_EXTENSION)

\* convert_proper_video, line 134: current_extension == PREFERRED_VIDEO_EXTENSION.
already_encoded(video_name) == splitext(video_name)[2] = PREFERRED_VIDEO_EXTENSION

\* convert_proper_video, lines 140 and 146: the program that is run.
tool_of(op) == IF op = TRANSCODE THEN "handbrake" ELSE "ffmpeg"

\* What one run of the external tool may do: its exit code, and whether it
\* left a file at the output path (it cannot when a directory has that name).
ToolOutcomes(contents, output) ==
    { o \in [returncode : {0, 1}, wrote : BOOLEAN] :
        o.wrote => ~isdir(contents, output) }

\* The folder after the tool has written its output file.
write_output(contents, output) ==
    {e \in contents : e.name # output}
        \cup {[name |-> output, kind |-> "file", id |-> OutputId]}

\* A mutation of check_raises: the exit code is not checked (check=False).
check_raises_never(returncode) == FALSE

\* subprocess.run(..., check=True) raises CalledProcessError on a non-zero exit.
check_raises(returncode) == returncode # 0

\* convert_proper_video, lines 139 and 145: if modify.
convert_applies(modify) == modify

\* process_folder, lines 82-83: convert_proper_video.
convert_video ==
    /\ pc = "convert"
    /\ IF already_encoded(renamed_video_path)
       THEN /\ converted_path' = renamed_video_path
            /\ pc' = "delete"
            /\ UNCHANGED <<fs, calls, tool_result, result, exc>>
       ELSE LET output == converted_name(renamed_video_path)
            IN  IF convert_applies(should_modify)
                THEN \E o \in ToolOutcomes(fs[folder_path], output) :
                        /\ tool_result' = o
                        /\ calls' = calls \cup {<<folder_path, tool_of(operation),
                                                  renamed_video_path, output>>}
                        /\ fs' = IF o.wrote
                                 THEN [fs EXCEPT ![folder_path] = write_output(@, output)]
                                 ELSE fs
                        /\ IF check_raises(o.returncode)
                           THEN /\ Raise("CalledProcessError", "")
                                /\ UNCHANGED converted_path
                           ELSE /\ converted_path' = output
                                /\ pc' = "delete"
                                /\ UNCHANGED <<result, exc>>
                ELSE /\ converted_path' = output
                     /\ pc' = "delete"
                     /\ UNCHANGED <<fs, calls, tool_result, result, exc>>
    /\ UNCHANGED <<config, listed_dir, folder_path, year, video_path,
                   renamed_video_path, listing, requires_manual_intervention,
                   processed, renames, deleted, messages>>

\* delete_excess_files, line 153: os.listdir(folder_path), read once.
delete_list ==
    /\ pc = "delete"
    /\ listing' = Names(fs[folder_path])
    /\ pc' = "delete_loop"
    /\ UNCHANGED <<config, fs, listed_dir, folder_path, year, video_path,
                   renamed_video_path, converted_path, tool_result, result,
                   exc, requires_manual_intervention, processed, effects>>

\* delete_excess_files, line 155: dir_entry_path != proper_video_path.
is_excess(dir_entry, proper_video_path) == dir_entry # proper_video_path

\* delete_excess_files, line 157: if modify.
delete_applies(modify) == modify

\* delete_excess_files, lines 154-164: one entry of the listing, in any order
\* (os.listdir promises none): shutil.rmtree or os.remove, or the message.
delete_entry ==
    /\ pc = "delete_loop"
    /\ \E n \in listing :
        /\ listing' = listing \ {n}
        /\ IF is_excess(n, converted_path)
           THEN IF delete_applies(should_modify)
                THEN /\ fs' = [fs EXCEPT ![folder_path] = {e \in @ : e.name # n}]
                     /\ deleted' = deleted \cup {<<folder_path, n>>}
                     /\ UNCHANGED messages
                ELSE /\ messages' = messages \cup {<<folder_path, n>>}
                     /\ UNCHANGED <<fs, deleted>>
           ELSE UNCHANGED <<fs, deleted, messages>>
    /\ UNCHANGED <<config, pc, listed_dir, folder_path, year, video_path,
                   renamed_video_path, converted_path, tool_result, result,
                   exc, requires_manual_intervention, processed, calls, renames>>

\* process_folder, lines 86-91: the listing is exhausted: return (True, None).
delete_done ==
    /\ pc = "delete_loop"
    /\ listing = {}
    /\ result' = [ok |-> TRUE, error |-> "None"]
    /\ pc' = "return"
    /\ UNCHANGED <<config, fs, listed_dir, locals, exc,
                   requires_manual_intervention, processed, effects>>

\* ----------------------------------------------------------- specification
Next ==
    \/ main_start
    \/ loop_enter
    \/ loop_skip
    \/ loop_exit
    \/ check_name
    \/ find_video
    \/ rename_video
    \/ convert_video
    \/ delete_list
    \/ delete_entry
    \/ delete_done
    \/ main_record
    \/ main_report

Spec == Init /\ [][Next]_vars

\* ------------------------------------------------------------------ claims
Range(seq) == {seq[i] : i \in 1..Len(seq)}

Extension(n) == splitext(n)[2]

\* The effects logged for folder f.
EffectsOn(f) == {t \in calls \cup renames \cup deleted \cup messages : t[1] = f}

\* process_folder is running on a folder and has got past find_proper_video
\* with a single match.
Located == folder_path # None /\ video_path # None

\* The located video as a file: its id in the folder as the program found it.
VideoId == (EntryNamed(fs0[folder_path], video_path)).id

\* The candidates of folder f as the program found it (valid names only).
Candidates0(f) == video_file_matches(fs0[f], extract_year(f))

\* C1: in a dry run (should_modify = FALSE) no folder's contents ever differ
\* from what the program found, and no external process, rename or deletion is
\* ever made, whatever the folder name, the candidates and the operation.
C1_DryRunChangesNothing ==
    ~should_modify => fs = fs0 /\ calls = {} /\ renames = {} /\ deleted = {}

\* A dry run went through the whole pipeline of a folder holding several
\* entries and reported deletions.
C1_Witness ==
    /\ ~should_modify
    /\ pc = "return"
    /\ result.ok
    /\ Cardinality(messages) >= 2
    /\ fs = fs0

\* C2: in apply mode, for a valid folder name and exactly one candidate, when
\* the tool (if invoked) exited with zero and wrote its output, process_folder
\* returns success and the folder then holds exactly the converted path, which
\* ends in .mkv.
C2_ApplyLeavesOnlyConverted ==
    ( /\ should_modify
      /\ pc \in {"return", "crashed"}
      /\ check_proper_folder_name(folder_path)
      /\ Cardinality(Candidates0(folder_path)) = 1
      /\ tool_result # None => tool_result.returncode = 0 /\ tool_result.wrote )
    => /\ pc = "return"
       /\ result.ok
       /\ Names(fs[folder_path]) = {converted_path}
       /\ Extension(converted_path) = PREFERRED_VIDEO_EXTENSION

\* C3: the name rename_proper_video computes is the folder's full base name
\* followed by the video's extension, in both modes.
C3_RenameTargetIsFolderName ==
    renamed_video_path # None
    => renamed_video_path = folder_path \o Extension(video_path)

\* The reason process_folder gives for rejecting folder f as the program found
\* it, "" when it does not reject it.
Rejection(f) ==
    IF ~check_proper_folder_name(f) THEN "Improper folder name"
    ELSE IF Cardinality(Candidates0(f)) # 1
         THEN "Could not automatically isolate correct video"
         ELSE ""

\* process_folder has returned from folder f and main has recorded the result.
Recorded(f) == f \in Range(processed) /\ f # folder_path

\* C4: a folder whose name fails validation, or that holds zero or several
\* candidates, is left before any effect in either mode: no rename, external
\* call, deletion or deletion report is ever made for it, its contents stay as
\* found, process_folder returns (False, reason) with the matching reason, and
\* main records that reason against the folder.
C4_RejectedFolderUntouched ==
    \A f \in DOMAIN fs :
        Rejection(f) # "" =>
            /\ fs[f] = fs0[f]
            /\ EffectsOn(f) = {}
            /\ folder_path = f => pc \in {"check", "find", "return"}
            /\ (folder_path = f /\ pc = "return")
                   => result = [ok |-> FALSE, error |-> Rejection(f)]
            /\ Recorded(f) =>
                   /\ f \in DOMAIN requires_manual_intervention
                   /\ requires_manual_intervention[f] = Rejection(f)

\* An apply run has finished with one folder recorded for its name and one for
\* its ambiguous videos.
C4_Witness ==
    /\ should_modify
    /\ pc = "done"
    /\ \E f, g \in DOMAIN requires_manual_intervention :
          /\ requires_manual_intervention[f] = "Improper folder name"
          /\ requires_manual_intervention[g] =
                 "Could not automatically isolate correct video"
          /\ Cardinality(fs0[g]) >= 2

\* C5 (state part): a non-zero exit of the tool ends the program with the
\* CalledProcessError and is not recorded as a 'needs manual intervention'
\* outcome; the folders still listed are never processed; the located video is
\* in the folder under its new name and no entry of the folder was deleted.
C5_ToolFailureState ==
    (tool_result # None /\ tool_result.returncode # 0) =>
        /\ pc = "crashed"
        /\ exc = "CalledProcessError"
        /\ folder_path \notin DOMAIN requires_manual_intervention
        /\ Range(listed_dir) \cap Range(processed) = {}
        /\ \E e \in fs[folder_path] :
              e.id = VideoId /\ e.name = new_video_name(folder_path, video_path)
        /\ {t \in deleted : t[1] = folder_path} = {}

\* C5 (step part): the failing call changes no other folder and no record, and
\* nothing happens after it.
C5_ToolFailureStep ==
    /\ pc # "crashed"
    /\ (pc' = "crashed" /\ exc' = "CalledProcessError") =>
          /\ \A f \in DOMAIN fs \ {folder_path} : fs'[f] = fs[f]
          /\ requires_manual_intervention' = requires_manual_intervention
          /\ processed' = processed
          /\ deleted' = deleted

\* C5: in apply mode a non-zero exit of the external tool propagates out of
\* process_folder and main: no later subdirectory is processed, the rename is
\* not undone, nothing of the folder is deleted and earlier folders keep their
\* results.
C5_ToolFailurePropagates == []C5_ToolFailureState /\ [][C5_ToolFailureStep]_vars

\* The tool failed in the second folder of a batch, after a first folder was
\* converted and cleaned, with a folder still listed.
C5_Witness ==
    /\ pc = "crashed"
    /\ exc = "CalledProcessError"
    /\ Len(processed) = 2
    /\ deleted # {}
    /\ listed_dir # <<>>

\* The program has ended: main returned, or an exception left it.
Ended == pc \in {"done", "crashed"}

\* The entries of the parent the batch loop is to process.
VisibleDirs == {e.name : e \in {x \in parent : x.kind = "dir" /\ x.name[1] # "."}}

\* C6: in a --many run in which no external tool fails, process_folder is
\* called exactly once on every directory of the parent whose name does not
\* start with '.', in ascending name order, and on nothing else, and at the end
\* the report holds exactly the rejected folders, each with its reason.
C6_BatchVisitsEveryFolder ==
    ( /\ contains_many
      /\ Ended
      /\ exc # "CalledProcessError" )
    => /\ processed = sorted(VisibleDirs)
       /\ DOMAIN requires_manual_intervention = {f \in VisibleDirs : Rejection(f) # ""}
       /\ \A f \in DOMAIN requires_manual_intervention :
             requires_manual_intervention[f] = Rejection(f)

\* C7: when the renamed video already ends in .mkv, convert_proper_video
\* returns the path it was given and no external process is called for the
\* folder, in both modes and for both operations; in apply mode the folder then
\* ends up holding that file, the located video, and nothing else.
C7_AlreadyEncodedShortCircuit ==
    ( /\ Located
      /\ pc \in {"delete", "delete_loop", "return"}
      /\ renamed_video_path # None
      /\ Extension(renamed_video_path) = PREFERRED_VIDEO_EXTENSION )
    => /\ converted_path = renamed_video_path
       /\ {t \in calls : t[1] = folder_path} = {}
       /\ tool_result = None
       /\ (should_modify /\ pc = "return") =>
             /\ result.ok
             /\ fs[folder_path] =
                    {[name |-> renamed_video_path, kind |-> "file", id |-> VideoId]}

\* An apply run kept an .mkv video it had to rename and removed two other
\* entries of the folder.
C7_Witness ==
    /\ should_modify
    /\ pc = "return"
    /\ result.ok
    /\ Located
    /\ converted_path = renamed_video_path
    /\ video_path # renamed_video_path
    /\ Cardinality({t \in deleted : t[1] = folder_path}) = 2
    /\ calls = {}

\* C8: a dry run of a valid folder with one candidate reports as 'Delete ...'
\* what apply mode deletes; in particular it does not report the located video
\* when that video already ends in .mkv, which apply mode renames and keeps.
C8_DryRunReportsWhatApplyDeletes ==
    ( /\ ~should_modify
      /\ pc = "return"
      /\ result.ok
      /\ Extension(video_path) = PREFERRED_VIDEO_EXTENSION )
    => <<folder_path, video_path>> \notin messages

\* The tool reported success without having written its output file.
SilentToolFailure ==
    tool_result # None /\ tool_result.returncode = 0 /\ ~tool_result.wrote

\* Entries of the current folder are deleted only after the rename and, when a
\* conversion was needed, after the tool returned zero; after a non-zero exit
\* the located video is still in the folder.
DeletionGated ==
    /\ {t \in deleted : t[1] = folder_path} # {} =>
          /\ renamed_video_path # None
          /\ tool_result # None => tool_result.returncode = 0
          /\ tool_result = None =>
                Extension(renamed_video_path) = PREFERRED_VIDEO_EXTENSION
    /\ (tool_result # None /\ tool_result.returncode # 0) =>
          \E e \in fs[folder_path] : e.id = VideoId

Searched ==
    /\ folder_path # None
    /\ check_proper_folder_name(folder_path)
    /\ pc \notin {"check", "find"}

\* The four digits, as written, of the ' (YYYY)' that ends an accepted name.
TrailingDigits(f) ==
    LET e == IF f[Len(f)] = "\n" THEN Len(f) - 1 ELSE Len(f)
    IN  SubSeq(f, e - 4, e - 1)

\* The four digits, as written, of the first '(YYYY)' of the name.
FirstDigits(f) ==
    LET i == CHOOSE k \in 1..Len(f) :
                 GroupAt(f, k) /\ \A j \in 1..(k - 1) : ~GroupAt(f, j)
    IN  SubSeq(f, i + 1, i + 4)

\* A digit string without its leading zeros (one digit is kept).
RECURSIVE StripZeros(_)
StripZeros(ds) == IF Len(ds) > 1 /\ ds[1] = "0" THEN StripZeros(Tail(ds)) ELSE ds

\* C10 as claimed: for every accepted folder name the string searched for in
\* file names is the four digits, as written, of the trailing ' (YYYY)'.
C10_SearchesTrailingYear ==
    Searched => str(year) = TrailingDigits(folder_path)

\* C10 as amended: the string searched for is the first '(YYYY)' group of the
\* name read as a number and written back in decimal, so without leading
\* zeros; it is the trailing year as written when the name holds no earlier
\* group and the year does not start with 0; and the located video holds it.
C10_SearchesFirstYearAsNumber ==
    Searched =>
        /\ str(year) = StripZeros(FirstDigits(folder_path))
        /\ ( /\ FirstDigits(folder_path)[1] # "0"
             /\ \A k \in 1..Len(folder_path) :
                   GroupAt(folder_path, k)
                       => SubSeq(folder_path, k + 1, k + 4) = TrailingDigits(folder_path) )
               => str(year) = TrailingDigits(folder_path)
        /\ video_path # None
               => Contains(StripZeros(FirstDigits(folder_path)), splitext(video_path)[1])

\* The video of a folder named with two year groups was located by the first.
C10_Witness ==
    /\ folder_path = F_two
    /\ pc = "rename"
    /\ year = 1999
    /\ video_path # None
    /\ ~Contains(TrailingDigits(folder_path), video_path)
====
